---- MODULE Spec2Model ----
(***************************************************************************)
(* Lazy mode (torch/csrc/lazy/core/lazy_mode.cpp): the thread-local nest   *)
(* counter, the thread-local dispatch key sets it toggles, LazyModeEnter,  *)
(* LazyModeExit and the live-tensor synchronisation of the outermost exit. *)
(*                                                                         *)
(* Every thread has a call stack of the external calls it is inside of     *)
(* (SyncLiveTensorsGraph, ts_eager_fallback, a redispatched Lazy kernel):  *)
(* these calls take time, and other threads and nested dispatches run      *)
(* while they last.                                                        *)
(***************************************************************************)
EXTENDS Integers, Sequences, FiniteSets, TLC

\* ---------------------------------------------------------------- bounds
MaxDepth == 2      \* deepest nesting of LazyModeEnter explored
MaxSteps == 4      \* calls begun in one behaviour
MaxTensors == 3    \* tensors alive in one behaviour

Threads == {"T1", "T2"}

\* c10::Device: a device type and an optional index (NoIndex: has_index() is false).
NoIndex == 0 - 1
kLazy == "lazy"
kCPU == "cpu"
Devices == {[type |-> kLazy, index |-> NoIndex], [type |-> kLazy, index |-> 1]}

\* The operators dispatched in the model, with their number of arguments.
Ops == {"neg", "add"}
Arity(op) == IF op = "neg" THEN 1 ELSE 2

VARIABLES
  nests,     \* nests[t]: _lazy_mode_nests(), the thread_local _nest_counter
  included,  \* included[t]: DispatchKey::Lazy is in the TLS included key set
  excluded,  \* excluded[t]: the unlazy key is in the TLS excluded key set
  stack,     \* stack[t]: the external calls thread t is inside of, innermost last
  tensors,   \* the tensors alive, by identity 1..Len(tensors)
  hist,      \* hist[t]: the calls thread t made that set the Lazy key, that
             \*   cleared it, of SyncLiveTensorsGraph, and the device
             \*   resolutions that threw
  trans,     \* trans[t]: the changes of nests[t] from 0 to 1 (up) and from 1
             \*   to 0 (down), and per open scope what LazyModeEnter was given
  ret,       \* the call completed last: thread, arguments, outcome, and the
             \*   thread's state when it began (pre) and when it ended (post)
  steps      \* calls begun so far (bounds the exploration)

vars == <<nests, included, excluded, stack, tensors, hist, trans, ret, steps>>

\* ------------------------------------------------------------ the counter
\* A mutation: pre-increment, returns the value after.
lazy_mode_inc_pre(n) == [ret |-> n + 1, nests |-> n + 1]

\* _lazy_mode_inc: post-increment, returns the value before.
lazy_mode_inc(n) == [ret |-> n, nests |-> n + 1]

\* Mutations: post-decrement (returns the value before); no TORCH_CHECK, so
\* that the counter is decremented at 0 too.
lazy_mode_dec_post(n) ==
  IF n > 0 THEN [ok |-> TRUE, ret |-> n, nests |-> n - 1]
           ELSE [ok |-> FALSE, ret |-> n, nests |-> n]
lazy_mode_dec_nocheck(n) ==
  [ok |-> TRUE, ret |-> n - 1, nests |-> n - 1]

\* _lazy_mode_dec: TORCH_CHECK(nests > 0), then pre-decrement, returns the value after.
lazy_mode_dec(n) ==
  IF n > 0 THEN [ok |-> TRUE, ret |-> n - 1, nests |-> n - 1]
           ELSE [ok |-> FALSE, ret |-> n, nests |-> n]

\* Mutations: inside only from the second nesting level on; the test inverted.
in_lazy_mode_off_by_one(t) == nests[t] > 1
in_lazy_mode_inverted(t) == nests[t] = 0

in_lazy_mode(t) == nests[t] > 0

\* ------------------------------------------------------- external pieces
\* atenDeviceToBackendDevice: the backend's device for a c10::Device; the
\* ordinal is the index, 0 when the device has none.
atenDeviceToBackendDevice(device) ==
  [ordinal |-> IF device.index = NoIndex THEN 0 ELSE device.index]

\* BackendDevice::toString
BackendDeviceToString(bd) == <<"backend", bd.ordinal>>

\* A tensor: its device, the value it holds or resolves to, and for a lazy
\* tensor made from an eager one the identity of that eager tensor.
EagerTensor(val) ==
  [device |-> [type |-> kCPU, index |-> NoIndex], val |-> val, payload |-> 0]

IsLazy(x) == x.device.type = kLazy
HasIndex(x) == x.device.index # NoIndex

\* GetOrCreateLtcTensor + CreateAtenFromLtcTensor: a new lazy tensor on the
\* backend device, wrapping the eager tensor of identity id.
CreateAtenFromLtcTensor(id, backend_device) ==
  [device |-> [type |-> kLazy, index |-> backend_device.ordinal],
   val |-> tensors[id].val, payload |-> id]

TensorIds == 1..Len(tensors)

\* An argument stack: heap tensors by identity (ref), or a temporary eager
\* tensor (ref 0) given by its value.
Ref(id) == [ref |-> id, val |-> 0]
Temp(val) == [ref |-> 0, val |-> val]
ArgStacks(op) == [1..Arity(op) -> {Ref(id) : id \in TensorIds}]

\* The lazy tensors among the arguments.
LazyArgs(stk) == {stk[i].ref : i \in {j \in 1..Len(stk) : IsLazy(tensors[stk[j].ref])}}

\* The tensors the arguments refer to, as they are now.
Operands(stk) == [i \in 1..Len(stk) |-> tensors[stk[i].ref]]

\* The same after the step.
OperandsAfter(stk) == [i \in 1..Len(stk) |-> tensors'[stk[i].ref]]

\* The dispatcher: the key of highest priority among the arguments' keys and
\* the TLS included keys, without the TLS excluded keys.  Every lazy tensor
\* carries the unlazy key and the Lazy key; the unlazy key
\* (TESTING_ONLY_GenericWrapper) ranks above Lazy, Lazy above CPU.
DispatchKeyFor(t, stk) ==
  IF LazyArgs(stk) # {} /\ ~excluded[t] THEN "Unlazy"
  ELSE IF LazyArgs(stk) # {} \/ included[t] THEN "Lazy"
  ELSE "CPU"

\* The eager kernels, on values.
EagerOp(op, vals) ==
  IF op = "neg" THEN (1 - vals[1]) ELSE (vals[1] + vals[2]) % 2

\* ts_eager_fallback: every lazy argument is materialized to an eager
\* tensor, the operator runs on the eager arguments, the result replaces
\* the arguments on the stack.  The lazy tensors themselves are not touched.
ts_eager_fallback(op, stk) ==
  [materialized |-> LazyArgs(stk),
   stack |-> <<Temp(EagerOp(op, [i \in 1..Len(stk) |-> tensors[stk[i].ref].val]))>>]

\* ------------------------------------------------------------ bookkeeping
\* What thread t looks like to an observer: depth, the two TLS key bits, and
\* the calls it has made so far.
Snapshot(t) ==
  [nests |-> nests[t], included |-> included[t], excluded |-> excluded[t],
   sets |-> hist[t].sets, clears |-> hist[t].clears, syncs |-> hist[t].syncs]

Top(t) == stack[t][Len(stack[t])]
Pop(t) == [stack EXCEPT ![t] = SubSeq(@, 1, Len(@) - 1)]
Push(t, f) == [stack EXCEPT ![t] = Append(@, f)]

\* A thread is between calls when it is inside no call of this module.
Idle(t) == stack[t] = <<>>
InsideOf(t) == IF Idle(t) THEN "none" ELSE Top(t).fn

\* The frames of thread t's stack that are calls of fn.
Frames(t, fn) == {i \in 1..Len(stack[t]) : stack[t][i].fn = fn}

NoCall == [fn |-> "none", outcome |-> "none"]

\* A call as it begins on thread t.
Call(t, fn) == [fn |-> fn, thread |-> t, pre |-> Snapshot(t), inside |-> InsideOf(t)]

\* The same after the step.
PostSnapshot(t) ==
  [nests |-> nests'[t], included |-> included'[t], excluded |-> excluded'[t],
   sets |-> hist'[t].sets, clears |-> hist'[t].clears, syncs |-> hist'[t].syncs]

\* The record of a call as it ends: its outcome and the thread's state then.
Done(call, outcome) ==
  call @@ [outcome |-> outcome, post |-> PostSnapshot(call.thread)]

\* The depth changes of a step of thread t, read off the counter.
CountTransitions(t) ==
  [up |-> trans[t].up + (IF nests[t] = 0 /\ nests'[t] = 1 THEN 1 ELSE 0),
   down |-> trans[t].down + (IF nests[t] = 1 /\ nests'[t] = 0 THEN 1 ELSE 0),
   scopes |-> trans[t].scopes,
   enters |-> trans[t].enters,
   exits |-> trans[t].exits]

\* ------------------------------------------------------------------ Init
\* Two tensors exist from the start: an eager one, and a lazy one the graph
\* builder made, on the lazy device without an index.
Init ==
  /\ nests = [t \in Threads |-> 0]
  /\ included = [t \in Threads |-> FALSE]
  /\ excluded = [t \in Threads |-> FALSE]
  /\ stack = [t \in Threads |-> <<>>]
  /\ tensors = <<EagerTensor(1),
                 [device |-> [type |-> kLazy, index |-> NoIndex], val |-> 0, payload |-> 0]>>
  /\ hist = [t \in Threads |-> [sets |-> 0, clears |-> 0, syncs |-> 0, unresolved |-> 0]]
  /\ trans = [t \in Threads |->
               [up |-> 0, down |-> 0, scopes |-> <<>>, enters |-> 0, exits |-> 0]]
  /\ ret = NoCall
  /\ steps = 0

\* ----------------------------------------------------------- LazyModeEnter
\* A mutation: the Lazy key kept in one flag for the whole process instead
\* of thread-local state.
LazyModeEnterProcessWide(t, device) ==
  /\ Idle(t)
  /\ steps < MaxSteps
  /\ nests[t] < MaxDepth
  /\ steps' = steps + 1
  /\ UNCHANGED <<excluded, stack, tensors>>
  /\ LET inc == lazy_mode_inc(nests[t]) IN
     /\ nests' = [nests EXCEPT ![t] = inc.nests]
     /\ IF inc.ret = 0
          THEN /\ included' = [u \in Threads |-> TRUE]
               /\ hist' = [hist EXCEPT ![t].sets = @ + 1]
          ELSE UNCHANGED <<included, hist>>
  /\ trans' = [trans EXCEPT ![t] =
                 [CountTransitions(t) EXCEPT
                    !.scopes = Append(@, [included |-> included[t], device |-> device]),
                    !.enters = @ + 1]]
  /\ ret' = Done(Call(t, "LazyModeEnter") @@
                  [device |-> device, returned |-> lazy_mode_inc(nests[t]).ret], "ok")

LazyModeEnter(t, device) ==
  /\ Idle(t)
  /\ steps < MaxSteps
  /\ nests[t] < MaxDepth
  /\ steps' = steps + 1
  /\ UNCHANGED <<excluded, stack, tensors>>
  /\ LET inc == lazy_mode_inc(nests[t]) IN
     /\ nests' = [nests EXCEPT ![t] = inc.nests]
     /\ IF inc.ret = 0
          THEN /\ included' = [included EXCEPT ![t] = TRUE]
               /\ hist' = [hist EXCEPT ![t].sets = @ + 1]
          ELSE UNCHANGED <<included, hist>>
  /\ trans' = [trans EXCEPT ![t] =
                 [CountTransitions(t) EXCEPT
                    !.scopes = Append(@, [included |-> included[t], device |-> device]),
                    !.enters = @ + 1]]
  /\ ret' = Done(Call(t, "LazyModeEnter") @@
                  [device |-> device, returned |-> lazy_mode_inc(nests[t]).ret], "ok")

\* ------------------------------------------------------------ LazyModeExit
\* A mutation: submit without wait.
ExitSyncArgsNoWait(device) ==
  LET backend_device == atenDeviceToBackendDevice(device) IN
  [device |-> backend_device,
   devices |-> {BackendDeviceToString(backend_device)},
   wait |-> FALSE]

\* The arguments of the SyncLiveTensorsGraph call of an outermost exit.
ExitSyncArgs(device) ==
  LET backend_device == atenDeviceToBackendDevice(device) IN
  [device |-> backend_device,
   devices |-> {BackendDeviceToString(backend_device)},
   wait |-> TRUE]

\* Mutations: the Lazy key is still included when the sync begins; the sync
\* is left out.
ExitOutermostNoClear(t, call, resolveOk) ==
  /\ UNCHANGED included
  /\ IF ~resolveOk
       THEN /\ hist' = [hist EXCEPT ![t].unresolved = @ + 1]
            /\ UNCHANGED stack
            /\ ret' = Done(call, "DeviceError")
       ELSE /\ hist' = [hist EXCEPT ![t].syncs = @ + 1]
            /\ stack' = Push(t, [fn |-> "SyncLiveTensorsGraph",
                                 args |-> ExitSyncArgs(call.device),
                                 call |-> call])
            /\ UNCHANGED ret
ExitOutermostNoSync(t, call, resolveOk) ==
  /\ included' = [included EXCEPT ![t] = FALSE]
  /\ UNCHANGED stack
  /\ IF ~resolveOk
       THEN /\ hist' = [hist EXCEPT ![t].clears = @ + 1, ![t].unresolved = @ + 1]
            /\ ret' = Done(call, "DeviceError")
       ELSE /\ hist' = [hist EXCEPT ![t].clears = @ + 1]
            /\ ret' = Done(call, "ok")

\* The body of `if (_lazy_mode_dec() == 0)`: clear the Lazy key, resolve the
\* device (resolveOk: atenDeviceToBackendDevice returns; it throws
\* otherwise, and so does LazyModeExit), call SyncLiveTensorsGraph.  The
\* thread is then inside SyncLiveTensorsGraph until SyncReturn.
ExitOutermost(t, call, resolveOk) ==
  /\ included' = [included EXCEPT ![t] = FALSE]
  /\ IF ~resolveOk
       THEN /\ hist' = [hist EXCEPT ![t].clears = @ + 1, ![t].unresolved = @ + 1]
            /\ UNCHANGED stack
            /\ ret' = Done(call, "DeviceError")
       ELSE /\ hist' = [hist EXCEPT ![t].clears = @ + 1, ![t].syncs = @ + 1]
            /\ stack' = Push(t, [fn |-> "SyncLiveTensorsGraph",
                                 args |-> ExitSyncArgs(call.device),
                                 call |-> call])
            /\ UNCHANGED ret

LazyModeExit(t, device, resolveOk) ==
  /\ Idle(t)
  /\ steps < MaxSteps
  /\ steps' = steps + 1
  /\ UNCHANGED <<excluded, tensors>>
  /\ LET dec == lazy_mode_dec(nests[t])
         call == Call(t, "LazyModeExit") @@
                   [device |-> device,
                    returned |-> dec.ret,
                    entered |-> IF trans[t].scopes = <<>> THEN FALSE
                                ELSE trans[t].scopes[Len(trans[t].scopes)].included]
     IN
     IF ~dec.ok
       THEN /\ UNCHANGED <<nests, included, stack, hist, trans>>
            /\ ret' = Done(call, "ScopeUnderflow")
       ELSE
         /\ nests' = [nests EXCEPT ![t] = dec.nests]
         /\ trans' = [trans EXCEPT ![t] =
                        [CountTransitions(t) EXCEPT
                           !.scopes = SubSeq(@, 1, Len(@) - 1),
                           !.exits = @ + 1]]
         /\ IF dec.ret = 0
              THEN ExitOutermost(t, call, resolveOk)
              ELSE /\ UNCHANGED <<included, stack, hist>>
                   /\ ret' = Done(call, "ok")

\* SyncLiveTensorsGraph returns (ok) or throws; LazyModeExit then returns or
\* lets the exception through.
\* A mutation: a sync that throws puts the thread back inside the mode.
SyncReturnRollingBack(t, ok) ==
  /\ ~Idle(t)
  /\ Top(t).fn = "SyncLiveTensorsGraph"
  /\ stack' = Pop(t)
  /\ IF ok THEN UNCHANGED <<nests, included>>
     ELSE /\ nests' = [nests EXCEPT ![t] = @ + 1]
          /\ included' = [included EXCEPT ![t] = TRUE]
  /\ UNCHANGED <<excluded, tensors, hist, trans, steps>>
  /\ ret' = Done(Top(t).call, IF ok THEN "ok" ELSE "SyncError")

SyncReturn(t, ok) ==
  /\ ~Idle(t)
  /\ Top(t).fn = "SyncLiveTensorsGraph"
  /\ stack' = Pop(t)
  /\ UNCHANGED <<nests, included, excluded, tensors, hist, trans, steps>>
  /\ ret' = Done(Top(t).call, IF ok THEN "ok" ELSE "SyncError")

\* ---------------------------------------------------------- dispatched ops
\* Operators are issued by the thread's own code between calls, and by the
\* external code it is inside of: the graph executor during the sync, the
\* eager fallback while it materializes and runs the operator.
MayDispatch(t) ==
  IF Idle(t) THEN TRUE
  ELSE Top(t).fn \in {"SyncLiveTensorsGraph", "ts_eager_fallback"}

\* An operator the dispatcher hands to another kernel than unlazy_handler.
Kernel(t, op, stk) ==
  /\ MayDispatch(t)
  /\ steps < MaxSteps
  /\ DispatchKeyFor(t, stk) # "Unlazy"
  /\ steps' = steps + 1
  /\ UNCHANGED <<nests, included, excluded, stack, tensors, hist, trans>>
  /\ ret' = Done(Call(t, "kernel") @@
                   [key |-> DispatchKeyFor(t, stk), op |-> op, stack |-> stk,
                    lazyArgs |-> LazyArgs(stk)],
                 "ok")

\* ----------------------------------------------------------- unlazy_handler
\* ExcludeDispatchKeyGuard: the constructor excludes the key unless it is
\* excluded already and remembers whether it did; the destructor, run on
\* every way out of the scope, removes what the constructor added.
GuardAdds(t) == ~excluded[t]
GuardRestore(t, added) == IF added THEN FALSE ELSE excluded[t]

\* A mutation: no ExcludeDispatchKeyGuard around the fallback.
UnlazyFallbackNoGuard(t, call) ==
  /\ UNCHANGED excluded
  /\ stack' = Push(t, [fn |-> "ts_eager_fallback", op |-> call.op,
                       stack |-> call.stack, guard |-> FALSE,
                       call |-> call])

\* The handler's branch outside lazy mode, up to the call of
\* ts_eager_fallback: the guard is constructed, the operator and the stack
\* are handed on.
UnlazyFallback(t, call) ==
  /\ excluded' = [excluded EXCEPT ![t] = TRUE]
  /\ stack' = Push(t, [fn |-> "ts_eager_fallback", op |-> call.op,
                       stack |-> call.stack, guard |-> GuardAdds(t),
                       call |-> call])

\* A mutation: the inside branch excludes the unlazy key as well.
UnlazyRedispatchExcluding(t, call) ==
  /\ stack' = Push(t, [fn |-> "redispatchBoxed", keys |-> {"Lazy"},
                       op |-> call.op, stack |-> call.stack, call |-> call])
  /\ excluded' = [excluded EXCEPT ![t] = TRUE]

\* The handler's branch inside lazy mode, up to the call of redispatchBoxed.
UnlazyRedispatch(t, call) ==
  /\ stack' = Push(t, [fn |-> "redispatchBoxed", keys |-> {"Lazy"},
                       op |-> call.op, stack |-> call.stack, call |-> call])
  /\ UNCHANGED excluded

\* A mutation: the handler calls the increment that belongs to
\* LazyModeEnter.
unlazy_handlerIncrementing(t, op, stk) ==
  /\ MayDispatch(t)
  /\ steps < MaxSteps
  /\ DispatchKeyFor(t, stk) = "Unlazy"
  /\ steps' = steps + 1
  /\ nests' = [nests EXCEPT ![t] = lazy_mode_inc(@).nests]
  /\ UNCHANGED <<included, tensors, hist, trans, ret>>
  /\ LET call == Call(t, "unlazy_handler") @@
                   [op |-> op, stack |-> stk, operands |-> Operands(stk)]
     IN IF in_lazy_mode(t) THEN UnlazyRedispatch(t, call)
                           ELSE UnlazyFallback(t, call)

\* The dispatcher hands an operator to unlazy_handler, the fallback of the
\* unlazy key.
unlazy_handler(t, op, stk) ==
  /\ MayDispatch(t)
  /\ steps < MaxSteps
  /\ DispatchKeyFor(t, stk) = "Unlazy"
  /\ steps' = steps + 1
  /\ UNCHANGED <<nests, included, tensors, hist, trans, ret>>
  /\ LET call == Call(t, "unlazy_handler") @@
                   [op |-> op, stack |-> stk, operands |-> Operands(stk)]
     IN IF in_lazy_mode(t) THEN UnlazyRedispatch(t, call)
                           ELSE UnlazyFallback(t, call)

\* Mutations: the exclusion is undone only when the fallback returns; the
\* lazy arguments are replaced in place by what they materialize to.
UnlazyFallbackExitNoUnwind(t, ok) ==
  /\ excluded' = [excluded EXCEPT ![t] =
                    IF ok THEN GuardRestore(t, Top(t).guard) ELSE excluded[t]]
  /\ UNCHANGED tensors
UnlazyFallbackExitInPlace(t, ok) ==
  /\ excluded' = [excluded EXCEPT ![t] = GuardRestore(t, Top(t).guard)]
  /\ tensors' = [id \in TensorIds |->
                   IF id \in LazyArgs(Top(t).stack) THEN EagerTensor(tensors[id].val)
                   ELSE tensors[id]]

\* The scope of the handler's outside branch ends: ts_eager_fallback returned
\* (ok) or threw, the guard's destructor runs.  The handler itself writes to
\* no tensor.
UnlazyFallbackExit(t, ok) ==
  /\ excluded' = [excluded EXCEPT ![t] = GuardRestore(t, Top(t).guard)]
  /\ UNCHANGED tensors

FallbackReturn(t, ok) ==
  /\ ~Idle(t)
  /\ Top(t).fn = "ts_eager_fallback"
  /\ stack' = Pop(t)
  /\ UnlazyFallbackExit(t, ok)
  /\ UNCHANGED <<nests, included, hist, trans, steps>>
  /\ ret' = Done(Top(t).call @@
                   [branch |-> "ts_eager_fallback",
                    materialized |-> ts_eager_fallback(Top(t).op, Top(t).stack).materialized,
                    result |-> IF ok THEN ts_eager_fallback(Top(t).op, Top(t).stack).stack
                                     ELSE Top(t).stack],
                 IF ok THEN "ok" ELSE "FallbackError")
            @@ [operandsAfter |-> OperandsAfter(Top(t).call.stack)]

\* The redispatched Lazy kernel returns (ok) or throws; the handler returns.
RedispatchReturn(t, ok) ==
  /\ ~Idle(t)
  /\ Top(t).fn = "redispatchBoxed"
  /\ stack' = Pop(t)
  /\ UNCHANGED <<nests, included, excluded, tensors, hist, trans, steps>>
  /\ ret' = Done(Top(t).call @@
                   [branch |-> "redispatchBoxed",
                    materialized |-> {},
                    result |-> Top(t).stack],
                 IF ok THEN "ok" ELSE "KernelError")
            @@ [operandsAfter |-> OperandsAfter(Top(t).call.stack)]

\* ------------------------------------------------ PrepareTensorForMetaKernel
\* The outcome for the tensor of identity id: the identity returned, or the
\* assertion that fails, or "new" for a tensor to be made.
\* Mutations: the test for the mode left out, so that an eager tensor is
\* wrapped outside the mode too; the index assertion of the in-mode branch
\* made outside the mode as well.
PrepareOutcomeNoModeCheck(t, id) ==
  IF IsLazy(tensors[id])
    THEN IF ~HasIndex(tensors[id]) THEN "same" ELSE "InternalAssert"
    ELSE "new"

PrepareOutcomeAssertIndexAlways(t, id) ==
  IF IsLazy(tensors[id])
    THEN IF ~HasIndex(tensors[id]) THEN "same" ELSE "InternalAssert"
    ELSE IF nests[t] > 0 THEN "new" ELSE "InternalAssert"

PrepareOutcome(t, id) ==
  IF ~in_lazy_mode(t)
    THEN IF IsLazy(tensors[id]) THEN "same" ELSE "InternalAssert"
    ELSE IF IsLazy(tensors[id])
           THEN IF ~HasIndex(tensors[id]) THEN "same" ELSE "InternalAssert"
           ELSE "new"

\* Called by the thread's own code between calls and by the Lazy kernels
\* (here: the one unlazy_handler redispatched to).
PrepareTensorForMetaKernel(t, id, lazy_device, resolveOk) ==
  /\ IF Idle(t) THEN TRUE ELSE Top(t).fn = "redispatchBoxed"
  /\ steps < MaxSteps
  /\ steps' = steps + 1
  /\ UNCHANGED <<nests, included, excluded, stack, hist, trans>>
  /\ LET call == Call(t, "PrepareTensorForMetaKernel") @@
                   [tensor |-> id, device |-> lazy_device]
         out == PrepareOutcome(t, id)
         heap == [heapBefore |-> Len(tensors), heapAfter |-> Len(tensors')]
     IN
     IF out = "new"
       THEN IF ~resolveOk
              THEN /\ UNCHANGED tensors
                   /\ ret' = Done(call @@ [value |-> 0], "DeviceError") @@ heap
              ELSE /\ Len(tensors) < MaxTensors
                   /\ tensors' = Append(tensors,
                        CreateAtenFromLtcTensor(id, atenDeviceToBackendDevice(lazy_device)))
                   /\ ret' = Done(call @@ [value |-> Len(tensors) + 1], "ok") @@ heap
       ELSE /\ UNCHANGED tensors
            /\ ret' = Done(call @@ [value |-> IF out = "same" THEN id ELSE 0],
                           IF out = "same" THEN "ok" ELSE out) @@ heap

\* ------------------------------------------------------------------ Next
Next ==
  \/ \E t \in Threads, device \in Devices : LazyModeEnter(t, device)
  \/ \E t \in Threads, device \in Devices, resolveOk \in BOOLEAN :
       LazyModeExit(t, device, resolveOk)
  \/ \E t \in Threads, ok \in BOOLEAN : SyncReturn(t, ok)
  \/ \E t \in Threads, op \in Ops : \E stk \in ArgStacks(op) : Kernel(t, op, stk)
  \/ \E t \in Threads, op \in Ops : \E stk \in ArgStacks(op) : unlazy_handler(t, op, stk)
  \/ \E t \in Threads, ok \in BOOLEAN : FallbackReturn(t, ok)
  \/ \E t \in Threads, ok \in BOOLEAN : RedispatchReturn(t, ok)
  \/ \E t \in Threads, id \in TensorIds, device \in Devices, resolveOk \in BOOLEAN :
       PrepareTensorForMetaKernel(t, id, device, resolveOk)

Spec == Init /\ [][Next]_vars

\* ================================================================ claims
HandlerFrames(t) == Frames(t, "ts_eager_fallback") \cup Frames(t, "redispatchBoxed")

\* C1: between calls, after any sequence of LazyModeEnter, LazyModeExit
\* (also those that throw), unlazy_handler and PrepareTensorForMetaKernel
\* calls, a thread has the Lazy key included exactly when its nest counter
\* is above 0.
C1_FlagIffDepthPositive ==
  \A t \in Threads : Idle(t) => (included[t] <=> nests[t] > 0)

\* C1 witness: a thread is inside the mode again after an outermost exit,
\* and a handler or prepare call has just completed on it.
C1_Witness ==
  \E t \in Threads :
    /\ Idle(t) /\ nests[t] = 1 /\ included[t]
    /\ trans[t].down >= 1
    /\ ret.fn \in {"unlazy_handler", "PrepareTensorForMetaKernel"}
    /\ ret.thread = t

\* C2: a balanced, properly nested sequence of enters and exits leaves the
\* Lazy key as it found it (the exit restores what its matching enter saw);
\* the key is set once per 0 -> 1 change of the counter and cleared once per
\* 1 -> 0 change; a nested enter or exit changes the counter and nothing else.
C2_BalancedIdentity ==
  /\ \A t \in Threads :
       /\ hist[t].sets = trans[t].up
       /\ hist[t].clears = trans[t].down
       /\ Len(trans[t].scopes) = nests[t]
  /\ (ret.fn = "LazyModeExit" /\ ret.outcome # "ScopeUnderflow")
       => ret.post.included = ret.entered
  /\ (ret.fn = "LazyModeEnter" /\ ret.pre.nests > 0)
       => ret.post = [ret.pre EXCEPT !.nests = @ + 1]
  /\ (ret.fn = "LazyModeExit" /\ ret.pre.nests > 1)
       => ret.post = [ret.pre EXCEPT !.nests = @ - 1]
  /\ (ret.fn = "LazyModeEnter" /\ ret.pre.nests = 0)
       => (~ret.pre.included /\ ret.post.included /\ ret.post.sets = ret.pre.sets + 1)
  /\ (ret.fn = "LazyModeExit" /\ ret.pre.nests = 1)
       => (ret.pre.included /\ ~ret.post.included
           /\ ret.post.clears = ret.pre.clears + 1)

\* C2 witness: Enter, Enter, Exit, Exit has just completed on one thread.
C2_Witness ==
  /\ ret.fn = "LazyModeExit" /\ ret.outcome = "ok" /\ ret.pre.nests = 1
  /\ trans[ret.thread].up = 1 /\ trans[ret.thread].down = 1
  /\ hist[ret.thread].sets = 1 /\ hist[ret.thread].clears = 1
  /\ steps = 4
  /\ \A u \in Threads \ {ret.thread} : trans[u].up = 0 /\ hist[u].sets = 0

\* C3: LazyModeExit at depth 0 throws, and the throwing call leaves the
\* depth at 0, both key sets as they were, and calls no sync.
C3_ExitAtZeroUnderflows ==
  (ret.fn = "LazyModeExit" /\ ret.pre.nests = 0)
    => (ret.outcome = "ScopeUnderflow" /\ ret.post = ret.pre)

\* C3 witness: the exit that throws comes after enters that were all matched.
C3_Witness ==
  /\ ret.fn = "LazyModeExit" /\ ret.outcome = "ScopeUnderflow"
  /\ trans[ret.thread].up >= 1
  /\ nests[ret.thread] = 0

\* C4 as claimed: the sync is called once per exit that takes the depth from
\* 1 to 0, so the calls of the sync equal the 1 -> 0 changes.
C4_SyncPerOutermostExit ==
  \A t \in Threads : hist[t].syncs = trans[t].down

\* C4 as amended: the sync is called once by every exit that takes the depth
\* from 1 to 0 and resolves its device, and by no other call: not by an
\* enter, a nested exit, an exit that underflows, or an exit whose device
\* resolution throws.  The calls of the sync equal the 1 -> 0 changes less
\* the resolutions that threw.
C4_SyncPerResolvedOutermostExit ==
  /\ \A t \in Threads :
       /\ hist[t].syncs + hist[t].unresolved = trans[t].down
       /\ Cardinality(Frames(t, "SyncLiveTensorsGraph")) <= 1
  /\ ret.fn = "LazyModeExit" =>
       ret.post.syncs = ret.pre.syncs +
         (IF ret.pre.nests = 1 /\ ret.outcome \in {"ok", "SyncError"} THEN 1 ELSE 0)
  /\ (ret.fn = "LazyModeExit" /\ ret.pre.nests = 1) =>
       ret.outcome \in {"ok", "SyncError", "DeviceError"}
  /\ ret.fn \in {"LazyModeEnter", "unlazy_handler", "kernel",
                 "PrepareTensorForMetaKernel"} =>
       ret.post.syncs = ret.pre.syncs

\* C4 witness: a thread has left the outermost scope twice, once with a sync
\* and once with a device resolution that threw.
C4_Witness ==
  \E t \in Threads :
    /\ trans[t].down = 2 /\ hist[t].syncs = 1 /\ hist[t].unresolved = 1
    /\ Idle(t)

\* C5: an outermost exit decrements, clears the Lazy key, resolves the
\* device and only then calls the sync: while a thread is inside the sync
\* its depth is 0 and the Lazy key is not included, and an exit whose device
\* resolution throws has already cleared the key and called no sync.
C5_OutsideModeDuringSync ==
  /\ \A t \in Threads :
       Frames(t, "SyncLiveTensorsGraph") # {} =>
         /\ nests[t] = 0
         /\ ~included[t]
         /\ ~in_lazy_mode(t)
         /\ stack[t][1].fn = "SyncLiveTensorsGraph"
         /\ stack[t][1].call.pre.nests = 1
  /\ (ret.fn = "LazyModeExit" /\ ret.outcome = "DeviceError") =>
       (ret.post.nests = 0 /\ ~ret.post.included /\ ret.post.syncs = ret.pre.syncs)

\* C5 witness: during the sync an operator on a lazy tensor reached
\* unlazy_handler, which took its outside branch.
C5_Witness ==
  \E t \in Threads :
    /\ Len(stack[t]) = 2
    /\ stack[t][1].fn = "SyncLiveTensorsGraph"
    /\ stack[t][2].fn = "ts_eager_fallback"

\* C6: every call of the sync has wait = true and names one device, the
\* backend device of the device given to the exit that took the depth from
\* 1 to 0, whatever devices the enters of the scope were given.
C6_SyncArgs ==
  \A t \in Threads : \A i \in Frames(t, "SyncLiveTensorsGraph") :
    LET f == stack[t][i] IN
    /\ f.args.wait = TRUE
    /\ f.call.fn = "LazyModeExit" /\ f.call.pre.nests = 1
    /\ f.args.device = atenDeviceToBackendDevice(f.call.device)
    /\ f.args.devices = {BackendDeviceToString(atenDeviceToBackendDevice(f.call.device))}
    /\ Cardinality(f.args.devices) = 1

\* C6 witness: the sync runs for the exit's device although the scope was
\* entered, and a nested scope exited, with another device.
C6_Witness ==
  \E t \in Threads : \E i \in Frames(t, "SyncLiveTensorsGraph") :
    /\ stack[t][i].args.device.ordinal = 1
    /\ ret.fn = "LazyModeExit" /\ ret.thread = t /\ ret.pre.nests = 2
    /\ atenDeviceToBackendDevice(ret.device).ordinal = 0
    /\ trans[t].up = 1

\* C7: while unlazy_handler's outside branch is inside ts_eager_fallback the
\* unlazy key is excluded on that thread, and when the handler is left, by
\* return or by exception, the exclusion is what it was before the call.
C7_ExclusionScoped ==
  /\ \A t \in Threads :
       excluded[t] <=> Frames(t, "ts_eager_fallback") # {}
  /\ (ret.fn = "unlazy_handler" /\ ret.pre.nests = 0) =>
       (ret.branch = "ts_eager_fallback" /\ ret.post.excluded = ret.pre.excluded)

\* C7 witness: the fallback threw and the handler has been left.
C7_Witness ==
  /\ ret.fn = "unlazy_handler" /\ ret.outcome = "FallbackError"
  /\ ~excluded[ret.thread]
  /\ Idle(ret.thread)

C9_InsideModePassThrough ==
  /\ \A t \in Threads :
       /\ \A i \in Frames(t, "redispatchBoxed") :
            LET f == stack[t][i] IN
            /\ f.call.pre.nests > 0
            /\ f.op = f.call.op /\ f.stack = f.call.stack
            /\ f.keys = {"Lazy"}
            /\ "Unlazy" \notin f.keys
            /\ ~excluded[t]
            /\ HandlerFrames(t) = {i}
       /\ \A i \in Frames(t, "ts_eager_fallback") : stack[t][i].call.pre.nests = 0
  /\ (ret.fn = "unlazy_handler" /\ ret.pre.nests > 0) =>
       /\ ret.branch = "redispatchBoxed"
       /\ ret.result = ret.stack
       /\ ret.materialized = {}
       /\ ret.post = ret.pre

\* C9 witness: a redispatch from inside the mode has returned.
C9_Witness ==
  /\ ret.fn = "unlazy_handler" /\ ret.branch = "redispatchBoxed"
  /\ ret.pre.nests > 0 /\ ret.pre.included
  /\ ret.outcome = "ok"

\* C10: a lazy tensor used outside the mode reaches unlazy_handler, which has
\* the fallback materialize it and leaves the tensor itself as it was: still
\* lazy, so that its next use outside the mode reaches the handler again.
C10_RepairPerCall ==
  /\ (ret.fn = "unlazy_handler" /\ ret.pre.nests = 0) =>
       /\ ret.branch = "ts_eager_fallback"
       /\ ret.materialized # {}
       /\ ret.materialized = {ret.stack[i].ref : i \in 1..Len(ret.stack)}
                               \cap {id \in TensorIds : IsLazy(tensors[id])}
       /\ ret.operandsAfter = ret.operands
       /\ \A id \in ret.materialized :
            /\ IsLazy(tensors[id])
            /\ (Idle(ret.thread) /\ ~in_lazy_mode(ret.thread)) =>
                 DispatchKeyFor(ret.thread, <<Ref(id)>>) = "Unlazy"
  /\ (ret.fn = "kernel" /\ ret.pre.nests = 0 /\ ret.inside # "ts_eager_fallback") =>
       ret.lazyArgs = {}

\* C10 witness: a lazy tensor made inside the mode was used after the
\* outermost exit and its sync, the handler materialized it, and the next
\* use of it is the handler's again.
C10_Witness ==
  /\ ret.fn = "unlazy_handler" /\ ret.branch = "ts_eager_fallback"
  /\ ret.outcome = "ok"
  /\ ret.pre.syncs >= 1
  /\ \E id \in ret.materialized : tensors[id].payload # 0
  /\ Idle(ret.thread)
  /\ \E id \in ret.materialized :
       /\ IsLazy(tensors[id])
       /\ DispatchKeyFor(ret.thread, <<Ref(id)>>) = "Unlazy"

\* C11: an unlazy_handler call outside the mode has every lazy tensor on its
\* stack materialized, however many there are, and leaves on the stack what
\* the eager kernel of the operator gives on the values the arguments hold
\* or materialize to.
C11_FallbackResult ==
  (ret.fn = "unlazy_handler" /\ ret.pre.nests = 0 /\ ret.outcome = "ok") =>
    /\ ret.branch = "ts_eager_fallback"
    /\ ret.materialized =
         {ret.stack[i].ref : i \in {j \in 1..Len(ret.stack) : IsLazy(ret.operands[j])}}
    /\ ret.result =
         <<Temp(EagerOp(ret.op, [i \in 1..Len(ret.stack) |-> ret.operands[i].val]))>>
    /\ Len(ret.result) = 1 /\ ret.result[1].ref = 0

\* C11 witness: an operator of two arguments, both lazy and distinct, went
\* through the fallback.
C11_Witness ==
  /\ ret.fn = "unlazy_handler" /\ ret.outcome = "ok" /\ ret.pre.nests = 0
  /\ Len(ret.stack) = 2
  /\ Cardinality(ret.materialized) = 2

\* C12: outside the mode PrepareTensorForMetaKernel returns the very tensor
\* it was given when that tensor is lazy, whatever the device argument and
\* whether or not the tensor's device has an index; given an eager tensor it
\* fails the internal assertion and returns nothing; and it creates no lazy
\* tensor.
C12_PrepareOutsideMode ==
  (ret.fn = "PrepareTensorForMetaKernel" /\ ret.pre.nests = 0) =>
    /\ IF IsLazy(tensors[ret.tensor])
         THEN ret.outcome = "ok" /\ ret.value = ret.tensor
         ELSE ret.outcome = "InternalAssert" /\ ret.value = 0
    /\ ret.heapAfter = ret.heapBefore
    /\ Len(tensors) = ret.heapAfter

\* C12 witness: outside the mode a lazy tensor whose device has an index came
\* back unchanged, the device argument being another device.
C12_Witness ==
  /\ ret.fn = "PrepareTensorForMetaKernel" /\ ret.pre.nests = 0
  /\ HasIndex(tensors[ret.tensor])
  /\ ret.device.index # tensors[ret.tensor].device.index
  /\ ret.outcome = "ok" /\ ret.value = ret.tensor

\* The values PrepareTensorForMetaKernel returns inside the mode when called
\* with lazy_device: a lazy tensor without an index (returned as it is), and
\* the lazy tensor the call created for lazy_device around an eager one.
ReturnedInsideMode(id, lazy_device) ==
  /\ IsLazy(tensors[id])
  /\ \/ ~HasIndex(tensors[id])
     \/ /\ tensors[id].payload # 0
        /\ tensors[id].device.index = atenDeviceToBackendDevice(lazy_device).ordinal

\* C13: PrepareTensorForMetaKernel is idempotent inside the mode: called with
\* a tensor w that a call inside the mode returned for the same device, with
\* or without an index on the device and also when w is the lazy tensor the
\* earlier call created around an eager one, it returns the same w.
C13_PrepareIdempotent ==
  (/\ ret.fn = "PrepareTensorForMetaKernel" /\ ret.pre.nests > 0
   /\ ReturnedInsideMode(ret.tensor, ret.device)) =>
    /\ ret.outcome = "ok"
    /\ ret.value = ret.tensor

\* C14: inside the mode PrepareTensorForMetaKernel, given an eager tensor v
\* and a device, returns a new lazy tensor bound to the backend device of
\* that device and holding v; and once the thread has left the mode, the
\* call on that lazy tensor with the same device returns it unchanged.
C14_WrapThenPassThrough ==
  /\ (/\ ret.fn = "PrepareTensorForMetaKernel" /\ ret.pre.nests > 0
      /\ ~IsLazy(tensors[ret.tensor]) /\ ret.outcome = "ok") =>
       /\ ret.value = ret.heapBefore + 1
       /\ ret.heapAfter = ret.heapBefore + 1
       /\ IsLazy(tensors[ret.value])
       /\ tensors[ret.value].payload = ret.tensor
       /\ tensors[ret.value].val = tensors[ret.tensor].val
       /\ tensors[ret.value].device.index = atenDeviceToBackendDevice(ret.device).ordinal
  /\ (/\ ret.fn = "PrepareTensorForMetaKernel" /\ ret.pre.nests = 0
      /\ tensors[ret.tensor].payload # 0
      /\ tensors[ret.tensor].device.index = atenDeviceToBackendDevice(ret.device).ordinal) =>
       /\ ret.outcome = "ok"
       /\ ret.value = ret.tensor
       /\ ret.heapAfter = ret.heapBefore

\* C14 witness: the thread wrapped an eager tensor inside the mode, left the
\* mode, and then got the wrapped tensor back for the same device.
C14_Witness ==
  /\ ret.fn = "PrepareTensorForMetaKernel" /\ ret.outcome = "ok"
  /\ ret.pre.nests = 0 /\ trans[ret.thread].down = 1
  /\ tensors[ret.tensor].payload # 0
  /\ tensors[ret.tensor].device.index = atenDeviceToBackendDevice(ret.device).ordinal
  /\ ret.value = ret.tensor

\* The thread a step belongs to: the one whose call returned, or whose call
\* went one frame deeper or came one frame back.
Actor(t) ==
  \/ stack'[t] # stack[t]
  \/ ret' # ret /\ ret'.thread = t

\* A step of one thread leaves what every other thread has as it is.
OtherThreadsUntouched ==
  \A u \in Threads :
    (nests'[u] # nests[u] \/ included'[u] # included[u] \/ excluded'[u] # excluded[u]
       \/ stack'[u] # stack[u] \/ hist'[u] # hist[u] \/ trans'[u] # trans[u])
      => Actor(u)

\* A thread's counter and Lazy key follow from its own calls alone: the
\* counter is the number of its scopes still open, the key is included when
\* its own calls set it once more than they cleared it.
OwnCallsOnly ==
  \A t \in Threads :
    /\ nests[t] = Len(trans[t].scopes)
    /\ included[t] <=> hist[t].sets = hist[t].clears + 1
    /\ hist[t].sets \in {hist[t].clears, hist[t].clears + 1}

\* C15: with two threads calling LazyModeEnter, LazyModeExit and
\* unlazy_handler in any interleaving, no step of one thread changes the
\* counter or the keys of the other, each thread's counter and Lazy key
\* follow from its own calls alone, and a thread inside the mode does not
\* put the other inside.
C15_ThreadIsolation ==
  /\ []OwnCallsOnly
  /\ [][OtherThreadsUntouched]_vars

\* C15 witness: one thread is inside the mode while the other, outside it,
\* has just had an operator on a lazy tensor go through the eager fallback.
C15_Witness ==
  \E t \in Threads, u \in Threads :
    /\ t # u
    /\ nests[t] > 0 /\ included[t]
    /\ nests[u] = 0 /\ ~included[u] /\ trans[u].up = 0
    /\ ret.fn = "unlazy_handler" /\ ret.thread = u
    /\ ret.branch = "ts_eager_fallback" /\ ret.pre.nests = 0

\* C16: a thread's nest counter is the number of its LazyModeEnter calls less
\* the number of its LazyModeExit calls that did not fail the underflow
\* check, and is never negative; the increment returns the counter as it was
\* before (0 for the first LazyModeEnter), the decrement returns it as it is
\* after (0 for the last LazyModeExit).
C16_DepthIsEntersLessExits ==
  /\ \A t \in Threads :
       /\ nests[t] = trans[t].enters - trans[t].exits
       /\ nests[t] >= 0
  /\ ret.fn = "LazyModeEnter" =>
       /\ ret.returned = ret.pre.nests
       /\ ret.post.nests = ret.pre.nests + 1
  /\ (ret.fn = "LazyModeExit" /\ ret.outcome # "ScopeUnderflow") =>
       /\ ret.returned = ret.pre.nests - 1
       /\ ret.returned = ret.post.nests
  /\ (ret.fn = "LazyModeExit" /\ ret.outcome = "ScopeUnderflow") =>
       ret.post.nests = ret.pre.nests

\* C16 witness: a thread entered twice and exited twice, and the second
\* exit's decrement returned 0.
C16_Witness ==
  \E t \in Threads :
    /\ trans[t].enters = 2 /\ trans[t].exits = 2 /\ nests[t] = 0
    /\ ret.fn = "LazyModeExit" /\ ret.thread = t
    /\ ret.outcome = "ok" /\ ret.returned = 0

\* The unlazy key's exclusion is at its initial value on every thread that
\* is not inside a handler call, and LazyModeEnter and LazyModeExit return
\* with the exclusion they were called with, whatever their outcome.
ExclusionInitialOutsideHandler ==
  /\ \A t \in Threads : HandlerFrames(t) = {} => ~excluded[t]
  /\ ret.fn \in {"LazyModeEnter", "LazyModeExit"} =>
       /\ ret.post.excluded = ret.pre.excluded
       /\ ~ret.post.excluded

\* A step changes a thread's exclusion only by entering or leaving the
\* eager fallback of the handler's outside branch.
ExclusionOnlyAroundFallback ==
  \A t \in Threads :
    excluded'[t] # excluded[t] =>
      /\ nests[t] = 0
      /\ \/ /\ Len(stack'[t]) = Len(stack[t]) + 1
            /\ stack'[t][Len(stack'[t])].fn = "ts_eager_fallback"
         \/ /\ Len(stack[t]) = Len(stack'[t]) + 1
            /\ stack[t][Len(stack[t])].fn = "ts_eager_fallback"

ExitThrew == ret.fn = "LazyModeExit" /\ ret.outcome \in {"SyncError", "DeviceError"}

\* Such an exit was an outermost one and returned with the counter at 0 and
\* the Lazy key cleared, as they were when the exception was raised; the
\* thread is outside the mode as long as it makes no further call.
ThrownExitLeavesMode ==
  ExitThrew =>
    /\ ret.pre.nests = 1 /\ ret.pre.included
    /\ ret.post.nests = 0 /\ ~ret.post.included
    /\ ret.post.clears = ret.pre.clears + 1
    /\ ret.post.sets = ret.pre.sets
    /\ nests[ret.thread] = 0 /\ ~included[ret.thread]

\* The next LazyModeExit of the thread fails the underflow check, the next
\* LazyModeEnter is an outermost one.
AfterThrownExit ==
  (ExitThrew /\ ret' # ret /\ ret'.thread = ret.thread) =>
    /\ ret'.fn = "LazyModeExit" =>
         /\ ret'.outcome = "ScopeUnderflow"
         /\ ret'.post.nests = 0 /\ ~ret'.post.included
    /\ ret'.fn = "LazyModeEnter" =>
         /\ ret'.returned = 0
         /\ ret'.post.nests = 1 /\ ret'.post.included
         /\ ret'.post.sets = ret'.pre.sets + 1

\* C18: when the sync, or the device resolution before it, throws during an
\* outermost LazyModeExit, the thread is left outside the mode: the counter
\* is already 0 and the Lazy key already cleared when the exception leaves,
\* and nothing is rolled back, so that a following LazyModeExit fails the
\* underflow check and a following LazyModeEnter is an outermost one.
C18_ThrownExitOutsideMode ==
  /\ []ThrownExitLeavesMode
  /\ [][AfterThrownExit]_vars

\* C18 witness: the sync of an outermost exit threw, and the thread is idle
\* outside the mode with no scope open.
C18_Witness ==
  /\ ret.fn = "LazyModeExit" /\ ret.outcome = "SyncError"
  /\ Idle(ret.thread)
  /\ nests[ret.thread] = 0 /\ ~included[ret.thread]
  /\ trans[ret.thread].scopes = <<>>

\* unlazy_handler and PrepareTensorForMetaKernel return, by any exit, with
\* the counter and the Lazy key they were called with, and without a sync
\* having been called.
HandlerAndPrepareKeepMode ==
  ret.fn \in {"unlazy_handler", "PrepareTensorForMetaKernel"} =>
    /\ ret.post.nests = ret.pre.nests
    /\ ret.post.included = ret.pre.included
    /\ ret.post.syncs = ret.pre.syncs
    /\ ret.post.sets = ret.pre.sets
    /\ ret.post.clears = ret.pre.clears

\* A step that changes a thread's counter or Lazy key, or calls the sync for
\* it, is the step of a LazyModeEnter or of a LazyModeExit that passed the
\* underflow check.
ModeChangedByEnterExitOnly ==
  \A t \in Threads :
    (nests'[t] # nests[t] \/ included'[t] # included[t]
       \/ hist'[t].syncs # hist[t].syncs) =>
      /\ Idle(t)
      /\ \/ trans'[t].enters = trans[t].enters + 1
         \/ trans'[t].exits = trans[t].exits + 1

\* C19: unlazy_handler, in both branches and when the call it makes throws,
\* and PrepareTensorForMetaKernel, in all branches and when an assertion
\* fails, never change the nest counter or the Lazy key and never call the
\* sync; only LazyModeEnter and LazyModeExit do.
C19_ModeFrame ==
  /\ []HandlerAndPrepareKeepMode
  /\ [][ModeChangedByEnterExitOnly]_vars

\* C19 witness: inside the mode the kernel the handler redispatched to
\* threw; the thread is at the depth and with the key it had.
C19_Witness ==
  /\ ret.fn = "unlazy_handler" /\ ret.outcome = "KernelError"
  /\ ret.branch = "redispatchBoxed"
  /\ ret.pre.nests = 1 /\ nests[ret.thread] = 1 /\ included[ret.thread]

====
